---- MODULE Spec2Model ----
(***************************************************************************)
(* Signaling Hub (backend/main.go, backend/cmd/main.go) and the client's   *)
(* Peer Link Coordinator (components/WebRTCManager.tsx) as state machines. *)
(***************************************************************************)
EXTENDS Naturals, Sequences, FiniteSets, TLC

\* ------------------------------------------------------------------------
\* Universe of the model
\* ------------------------------------------------------------------------
Conns == {"c1", "c2", "c3"}
Ids == {"A", "B", "C"}
Rooms == {"r1", "r2"}
NoId == ""
\* senderId values a client may put in a frame itself
SpoofIds == {NoId, "A"}
NoConn == "-"
NoSnap == {"none"}

\* The two room-aware builds of the Hub held by the repository.
Builds == {"main", "cmd"}

\* The scenarios in which real clients talk through the Hub.
MeshScn == {"pair", "leave", "glare"}

\* MessageType constants of the Hub.
TypeNewClient == "newClient"
TypeGetClients == "getClients"
TypeClients == "clients"
TypeCreateRoom == "createRoom"
TypeJoinRoom == "joinRoom"
TypeOffer == "offer"
TypeAnswer == "answer"
TypeCandidate == "candidate"
RoutedTypes == {TypeOffer, TypeAnswer, TypeCandidate}
JoinTypes == {TypeCreateRoom, TypeJoinRoom}

\* type Message struct: one payload field stands for Offer/Answer/Candidate.
Message(t, cid, sid, rid, cl, p) ==
    [type |-> t, clientId |-> cid, senderId |-> sid, roomId |-> rid,
     clients |-> cl, payload |-> p]

\* A session description or candidate: the handle (owner o, number h) that
\* made it and, for an answer, the offer (ro, rh) it answers.
Sdp(o, h, ro, rh) == [o |-> o, h |-> h, ro |-> ro, rh |-> rh]
NoDesc == Sdp(NoId, 0, NoId, 0)
Offer(o, h) == Sdp(o, h, NoId, 0)
Answer(o, h, offer) == Sdp(o, h, offer.o, offer.h)
\* the payloads of the frames sent to the Hub when it runs alone
Payloads == {Offer("A", 1)}

\* type Client struct and NewClient
NoClient == [Id |-> NoId, RoomId |-> "", Conn |-> NoConn]
NewClient(id, roomId, conn) == [Id |-> id, RoomId |-> roomId, Conn |-> conn]

\* Locals of one connection's goroutine between two of its steps.
NoLocals == [roomId |-> "", exclude |-> {}, clientList |-> {}, ret |-> "read"]

\* Bound: the frames and read errors the Hub takes in one run.
MaxFrames == 3

VARIABLES
    nread,      \* frames and read errors taken so far
    scn,        \* the scenario: which frames clients send
    build,      \* which Hub build runs
    clients,    \* Hub registry: id -> Client or NoClient
    clientsMu,  \* "free", or "held" for ever once a holder panicked
    senderID,   \* per connection: the read loop's senderID
    gpc,        \* per connection: where its goroutine stands
    glocal,     \* per connection: the goroutine's locals
    sent,       \* per connection: what the Hub's last step wrote to it
    lastSnap,   \* per connection: clients of the last snapshot written to it
    inbox,      \* per connection: frames on their way to the Hub
    wire,       \* per connection: frames on their way to the client
    ws,         \* per client: "none", or "open" once ws.onopen has run
    peersRef,   \* per client: peersRef.current, the peers of the last render
    peersNext,  \* per client: peers with every queued setPeers updater applied
    pcs,        \* per client: the RTCPeerConnection objects it has made
    tasks,      \* per client: handleOffer calls suspended at an await
    contentNext,\* per client: editorText with every queued update applied
    contentRef, \* per client: currentContentRef.current
    chq,        \* per client and handle: data sent on the channel, in flight
    recv        \* per client and handle: data the channel's onmessage took

hubVars == <<scn, build, clients, clientsMu, senderID, gpc, glocal, sent, lastSnap>>
cliVars == <<ws, peersRef, peersNext, pcs, tasks, contentNext, contentRef, chq, recv>>
vars == <<nread, scn, build, clients, clientsMu, senderID, gpc, glocal, sent, lastSnap,
          inbox, wire, ws, peersRef, peersNext, pcs, tasks, contentNext, contentRef,
          chq, recv>>

NoSent == [c \in Conns |-> <<>>]

\* ------------------------------------------------------------------------
\* Hub helpers
\* ------------------------------------------------------------------------
Registered == {id \in Ids : clients[id] # NoClient}

\* the loop `for id, client := range clients { if client.RoomId == roomId ...`
RoomList(reg, roomId) == {id \in Ids : reg[id] # NoClient /\ reg[id].RoomId = roomId}

\* getClientId: the ids whose record holds conn; Go's map order picks one.
getClientId(conn) == {id \in Ids : clients[id] # NoClient /\ clients[id].Conn = conn}

contains(arr, str) == str \in arr

ClientsMsg(list) == Message(TypeClients, NoId, NoId, "", list, NoDesc)

\* The transport of conn is gone: its read loop has ended or is ending, and
\* conn.WriteMessage on it returns an error.
Gone(conn) == gpc[conn] \in {"closed", "panicked"} \/ glocal[conn].ret = "closed"

\* A recipients loop that returns at the first write error.
BroadcastWritesAbort(reg, roomId, excludeClients, m) ==
    [c \in Conns |->
        LET to == {id \in Ids :
                     /\ reg[id] # NoClient
                     /\ ~contains(excludeClients, reg[id].Id)
                     /\ reg[id].RoomId = roomId}
            n == Cardinality({id \in to : reg[id].Conn = c})
        IN  IF \E id \in to : Gone(reg[id].Conn) THEN <<>> ELSE [i \in 1..n |-> m]]

\* A recipients loop that forgets the room.
BroadcastWritesAnyRoom(reg, roomId, excludeClients, m) ==
    [c \in Conns |->
        LET n == Cardinality({id \in Ids :
                     /\ reg[id] # NoClient
                     /\ ~contains(excludeClients, reg[id].Id)
                     /\ reg[id].Conn = c})
        IN  [i \in 1..n |-> m]]

\* A recipients loop that forgets excludeClients.
BroadcastWritesAll(reg, roomId, excludeClients, m) ==
    [c \in Conns |->
        LET n == Cardinality({id \in Ids :
                     /\ reg[id] # NoClient
                     /\ reg[id].RoomId = roomId
                     /\ reg[id].Conn = c})
        IN  [i \in 1..n |-> m]]

\* The recipients loop of broadcastClientsInRoom: one write per matching record.
BroadcastWrites(reg, roomId, excludeClients, m) ==
    [c \in Conns |->
        LET n == Cardinality({id \in Ids :
                     /\ reg[id] # NoClient
                     /\ ~contains(excludeClients, reg[id].Id)
                     /\ reg[id].RoomId = roomId
                     /\ reg[id].Conn = c})
        IN  [i \in 1..n |-> m]]

\* What a step's writes do to the per-connection record of the last snapshot.
SnapAfter(writes) ==
    [c \in Conns |->
        IF \E i \in 1..Len(writes[c]) : writes[c][i].type = TypeClients
        THEN LET k == CHOOSE i \in 1..Len(writes[c]) :
                        /\ writes[c][i].type = TypeClients
                        /\ \A j \in (i+1)..Len(writes[c]) : writes[c][j].type # TypeClients
             IN  writes[c][k].clients
        ELSE lastSnap[c]]

\* conn.WriteMessage / conn.WriteJSON of one step, per connection: sent is
\* what the step wrote; where write errors are followed, wire is what of it
\* the transport took.
Wrote(writes) ==
    /\ sent' = writes
    /\ lastSnap' = IF scn \in {"rooms", "fail"} THEN SnapAfter(writes) ELSE lastSnap
    /\ wire' = IF scn \in MeshScn THEN [c \in Conns |-> wire[c] \o writes[c]]
               ELSE IF scn = "fail"
                    THEN [c \in Conns |-> IF Gone(c) THEN <<>> ELSE writes[c]]
                    ELSE wire

\* ------------------------------------------------------------------------
\* Hub: the steps of one connection's goroutine
\* ------------------------------------------------------------------------
\* clientsMu.Lock() on a mutex whose holder panicked never returns.
Blocked(conn) ==
    /\ gpc' = [gpc EXCEPT ![conn] = "blocked"]
    /\ glocal' = [glocal EXCEPT ![conn] = NoLocals]
    /\ UNCHANGED <<clients, clientsMu>>
    /\ Wrote(NoSent)

\* A handleRoomOperation that keeps the record an id already has.
handleRoomOperationKeep(conn, clientId, roomId) ==
    IF clientsMu = "held" THEN Blocked(conn)
    ELSE /\ clients' = IF clients[clientId] # NoClient THEN clients
                       ELSE [clients EXCEPT ![clientId] = NewClient(clientId, roomId, conn)]
         /\ gpc' = [gpc EXCEPT ![conn] = "bcastList"]
         /\ glocal' = [glocal EXCEPT ![conn] =
                [NoLocals EXCEPT !.roomId = roomId, !.exclude = {clientId}]]
         /\ UNCHANGED clientsMu
         /\ Wrote(NoSent)

\* handleRoomOperation up to its Unlock; broadcastClientsInRoom follows.
handleRoomOperation(conn, clientId, roomId) ==
    IF clientsMu = "held" THEN Blocked(conn)
    ELSE /\ clients' = [clients EXCEPT ![clientId] = NewClient(clientId, roomId, conn)]
         /\ gpc' = [gpc EXCEPT ![conn] = "bcastList"]
         /\ glocal' = [glocal EXCEPT ![conn] =
                [NoLocals EXCEPT !.roomId = roomId, !.exclude = {clientId}]]
         /\ UNCHANGED clientsMu
         /\ Wrote(NoSent)

\* A sendClientList that leaves the asking connection's ids out of the list.
sendClientListOthers(conn, roomId) ==
    IF clientsMu = "held" THEN Blocked(conn)
    ELSE /\ UNCHANGED <<clients, clientsMu, gpc, glocal>>
         /\ Wrote([c \in Conns |->
                IF c = conn
                THEN <<ClientsMsg(RoomList(clients, roomId) \ getClientId(conn))>>
                ELSE <<>>])

\* sendClientList: the list under the lock, then conn.WriteMessage.
sendClientList(conn, roomId) ==
    IF clientsMu = "held" THEN Blocked(conn)
    ELSE /\ UNCHANGED <<clients, clientsMu, gpc, glocal>>
         /\ Wrote([c \in Conns |->
                IF c = conn THEN <<ClientsMsg(RoomList(clients, roomId))>> ELSE <<>>])

\* A Hub that trusts the senderId the client wrote.
KeepSenderId(msg, sid) == msg

\* A Hub that stamps the frame and loses its payload.
StampStrip(msg, sid) == [msg EXCEPT !.senderId = sid, !.payload = NoDesc]

\* msg.SenderId = senderID
Stamp(msg, sid) == [msg EXCEPT !.senderId = sid]

\* A Hub that writes a routed frame to every registered connection.
forwardToAll(conn, sid, msg) ==
    IF clientsMu = "held" THEN Blocked(conn)
    ELSE /\ UNCHANGED <<clients, clientsMu, gpc, glocal>>
         /\ Wrote([c \in Conns |-> IF getClientId(c) # {}
                                   THEN <<[msg EXCEPT !.senderId = sid]>> ELSE <<>>])

\* A Hub that answers the sender when the target is not registered.
forwardOrBounce(conn, sid, msg) ==
    IF clientsMu = "held" THEN Blocked(conn)
    ELSE /\ UNCHANGED <<clients, clientsMu, gpc, glocal>>
         /\ Wrote([c \in Conns |->
                IF clients[msg.clientId] # NoClient
                THEN (IF c = clients[msg.clientId].Conn THEN <<Stamp(msg, sid)>> ELSE <<>>)
                ELSE (IF c = conn THEN <<Stamp(msg, sid)>> ELSE <<>>)])

\* forwardMessage: the lookup under the lock, the stamping, then
\* targetClient.Conn.WriteJSON(msg) or the log line.
forwardMessage(conn, sid, msg) ==
    IF clientsMu = "held" THEN Blocked(conn)
    ELSE /\ UNCHANGED <<clients, clientsMu, gpc, glocal>>
         /\ Wrote(IF clients[msg.clientId] # NoClient
                  THEN [c \in Conns |-> IF c = clients[msg.clientId].Conn
                                        THEN <<Stamp(msg, sid)>> ELSE <<>>]
                  ELSE NoSent)

\* A Hub that ends the read loop on a type it does not know.
UnknownTypeFatal(conn) ==
    /\ gpc' = [gpc EXCEPT ![conn] = "closed"]
    /\ UNCHANGED <<clients, clientsMu, glocal>>
    /\ Wrote(NoSent)

\* default: log.Printf("Unknown message type")
UnknownType(conn) ==
    /\ UNCHANGED <<clients, clientsMu, gpc, glocal>>
    /\ Wrote(NoSent)

\* handleConnections: one turn of the read loop, ReadJSON having returned msg.
handleConnections(conn, msg) ==
    /\ gpc[conn] = "read"
    /\ LET sid == IF msg.type \in JoinTypes THEN msg.clientId ELSE senderID[conn]
       IN  /\ senderID' = [senderID EXCEPT ![conn] = sid]
           /\ CASE msg.type \in JoinTypes ->
                       handleRoomOperation(conn, msg.clientId, msg.roomId)
                [] msg.type = TypeGetClients -> sendClientList(conn, msg.roomId)
                [] msg.type \in RoutedTypes -> forwardMessage(conn, sid, msg)
                [] OTHER -> UnknownType(conn)
    /\ UNCHANGED <<scn, build>>

\* handleClientDisconnection of build main: no nil check, no deferred Unlock.
DisconnectMain(conn, clientId) ==
    IF clientId = NoId \/ clients[clientId] = NoClient
    THEN \* client.RoomId on a nil *Client: the goroutine panics holding clientsMu
         /\ clientsMu' = "held"
         /\ gpc' = [gpc EXCEPT ![conn] = "panicked"]
         /\ glocal' = [glocal EXCEPT ![conn] = NoLocals]
         /\ UNCHANGED clients
         /\ Wrote(NoSent)
    ELSE /\ clients' = [clients EXCEPT ![clientId] = NoClient]
         /\ gpc' = [gpc EXCEPT ![conn] = "bcastList"]
         /\ glocal' = [glocal EXCEPT ![conn] =
                [NoLocals EXCEPT !.roomId = clients[clientId].RoomId, !.ret = "closed"]]
         /\ UNCHANGED clientsMu
         /\ Wrote(NoSent)

\* handleClientDisconnection of build cmd: early returns, deferred Unlock.
DisconnectCmd(conn, clientId) ==
    IF clientId = NoId \/ clients[clientId] = NoClient
    THEN /\ gpc' = [gpc EXCEPT ![conn] = "closed"]
         /\ glocal' = [glocal EXCEPT ![conn] = NoLocals]
         /\ UNCHANGED <<clients, clientsMu>>
         /\ Wrote(NoSent)
    ELSE /\ clients' = [clients EXCEPT ![clientId] = NoClient]
         /\ IF clients[clientId].RoomId # ""
            THEN /\ gpc' = [gpc EXCEPT ![conn] = "bcastList"]
                 /\ glocal' = [glocal EXCEPT ![conn] =
                        [NoLocals EXCEPT !.roomId = clients[clientId].RoomId,
                                         !.ret = "closed"]]
            ELSE /\ gpc' = [gpc EXCEPT ![conn] = "closed"]
                 /\ glocal' = [glocal EXCEPT ![conn] = NoLocals]
         /\ UNCHANGED clientsMu
         /\ Wrote(NoSent)

\* A handleClientDisconnection that removes the id the connection joined as.
handleClientDisconnectionById(conn) ==
    /\ gpc[conn] = "read"
    /\ IF clientsMu = "held" THEN Blocked(conn)
       ELSE IF build = "main" THEN DisconnectMain(conn, senderID[conn])
            ELSE DisconnectCmd(conn, senderID[conn])
    /\ UNCHANGED <<scn, build, senderID>>

\* handleClientDisconnection: ReadJSON returned an error on conn.
handleClientDisconnection(conn) ==
    /\ gpc[conn] = "read"
    /\ IF clientsMu = "held" THEN Blocked(conn)
       ELSE \E clientId \in (IF getClientId(conn) = {} THEN {NoId} ELSE getClientId(conn)) :
                IF build = "main" THEN DisconnectMain(conn, clientId)
                ELSE DisconnectCmd(conn, clientId)
    /\ UNCHANGED <<scn, build, senderID>>

\* What makes conn.ReadJSON return an error: the transport is gone, or the
\* frame read is not the JSON of a Message.
ReadErrors == {"close", "syntax"}

\* `if err != nil { handleClientDisconnection(conn); break }`, whatever err is
ReadJSONError(conn, err) == handleClientDisconnection(conn)

\* broadcastClientsInRoom of build main: the list under the lock ...
BroadcastListMain(conn) ==
    /\ gpc' = [gpc EXCEPT ![conn] = "bcastWrite"]
    /\ glocal' = [glocal EXCEPT ![conn].clientList = RoomList(clients, glocal[conn].roomId)]
    /\ Wrote(NoSent)

\* ... and of build cmd: the list and the writes under the lock.
BroadcastCmd(conn) ==
    /\ gpc' = [gpc EXCEPT ![conn] = glocal[conn].ret]
    /\ glocal' = [glocal EXCEPT ![conn] = NoLocals]
    /\ Wrote(IF glocal[conn].roomId = "" THEN NoSent
             ELSE BroadcastWrites(clients, glocal[conn].roomId, glocal[conn].exclude,
                      ClientsMsg(RoomList(clients, glocal[conn].roomId))))

broadcastClientsInRoom(conn) ==
    /\ gpc[conn] = "bcastList"
    /\ IF clientsMu = "held" THEN Blocked(conn)
       ELSE IF build = "main" THEN BroadcastListMain(conn) ELSE BroadcastCmd(conn)
    /\ UNCHANGED <<scn, build, clients, clientsMu, senderID>>

\* broadcastClientsInRoom of build main, after Unlock: the recipients loop.
BroadcastWrite(conn) ==
    /\ gpc[conn] = "bcastWrite"
    /\ gpc' = [gpc EXCEPT ![conn] = glocal[conn].ret]
    /\ glocal' = [glocal EXCEPT ![conn] = NoLocals]
    /\ Wrote(BroadcastWrites(clients, glocal[conn].roomId, glocal[conn].exclude,
                 ClientsMsg(glocal[conn].clientList)))
    /\ UNCHANGED <<scn, build, clients, clientsMu, senderID>>

\* ------------------------------------------------------------------------
\* Hub alone: any client may send any frame on its connection
\* ------------------------------------------------------------------------
\* The ids a client may register on each connection: c1 may register two ids
\* and may take B over from c2.
Aliases == [c \in Conns |-> IF c = "c1" THEN {"A", "B"} ELSE IF c = "c2" THEN {"B"} ELSE {"C"}]

JoinFrames(conn) ==
    {Message(t, id, NoId, r, {}, NoDesc) : t \in JoinTypes, id \in Aliases[conn], r \in Rooms}

RoutedFrames ==
    {Message(t, id, sid, "", {}, p) :
        t \in RoutedTypes, id \in Ids, sid \in SpoofIds, p \in Payloads}

\* a type value the Hub has no constant for
TypePing == "ping"

OtherFrames ==
    {Message(TypeGetClients, NoId, NoId, r, {}, NoDesc) : r \in Rooms}
    \cup {Message(TypeNewClient, id, NoId, "", {}, NoDesc) : id \in Ids}
    \cup {Message(TypePing, NoId, NoId, "", {}, NoDesc)}

Frames(conn) == JoinFrames(conn) \cup (IF scn = "route" THEN RoutedFrames ELSE OtherFrames)

\* the joins of room r1, and those by which C, on c3, changes rooms
RoomFrames(conn) == {msg \in JoinFrames(conn) : msg.roomId = "r1" \/ conn = "c3"}


\* ------------------------------------------------------------------------
\* Client: the state of useWebRTCManager (components/WebRTCManager.tsx)
\* ------------------------------------------------------------------------
\* Bound: the RTCPeerConnection objects one client makes in a run.
MaxPc == 3
Handles == 1..MaxPc

\* The connection each client's WebSocket is.
ConnOf == [x \in Ids |-> IF x = "A" THEN "c1" ELSE IF x = "B" THEN "c2" ELSE "c3"]

\* Editor contents; NoText marks a channel that has not opened.
Texts == {"", "hello", "bye"}
NoText == "~"
Data(text, kind) == [text |-> text, kind |-> kind]

\* interface PeerConnection: an entry of peers (pc, dc: 0 for undefined/null)
NoPeer == [has |-> FALSE, pc |-> 0, dc |-> 0]
Peer(pc, dc) == [has |-> TRUE, pc |-> pc, dc |-> dc]
NoPeers == [r \in Ids |-> NoPeer]

\* An RTCPeerConnection with its textSync channel and its offer chain.
NoPc ==
    [remote |-> NoId, init |-> FALSE, closed |-> FALSE, sig |-> "none",
     ldesc |-> NoDesc, rdesc |-> NoDesc, chan |-> "none", offer |-> "n/a",
     cand |-> FALSE, failed |-> FALSE, openRef |-> NoText, openCur |-> NoText]
NewPc(r, isInitiator) ==
    [NoPc EXCEPT !.remote = r, !.init = isInitiator, !.sig = "stable",
                 !.chan = IF isInitiator THEN "connecting" ELSE "none",
                 !.offer = IF isInitiator THEN "creating" ELSE "n/a"]
NoPcs == [h \in Handles |-> NoPc]

\* dataChannel.close() and peerConnection.close()
CloseChan(pc) == [pc EXCEPT !.chan = IF @ \in {"connecting", "open"} THEN "closed" ELSE @]
ClosePc(pc) == [CloseChan(pc) EXCEPT !.closed = TRUE]

\* What a handler works on: the refs it reads and the updates it queues.
St(x) == [ref |-> peersRef[x], next |-> peersNext[x], pcs |-> pcs[x], ret |-> 0]

Taken(P) == {h \in Handles : P.pcs[h] # NoPc}
CanCreate(P, n) == Cardinality(Taken(P)) + n <= MaxPc

\* A setupDataChannel whose setPeers does not spread prev.
setupDataChannelAlone(P, h, remoteClientId) ==
    [P EXCEPT !.next = [NoPeers EXCEPT ![remoteClientId] = Peer(P.next[remoteClientId].pc, h)]]

\* setupDataChannel's setPeers: merge dataChannel into the entry, made if absent
setupDataChannel(P, h, remoteClientId) ==
    [P EXCEPT !.next = [@ EXCEPT ![remoteClientId] = Peer(@.pc, h)]]

\* createPeerConnection: the check on peersRef, new RTCPeerConnection,
\* createDataChannel + setupDataChannel for an initiator, setPeers.
createPeerConnection(P, remoteClientId, isInitiator) ==
    IF P.ref[remoteClientId].has /\ P.ref[remoteClientId].pc # 0
    THEN [P EXCEPT !.ret = P.ref[remoteClientId].pc]
    ELSE LET h == Cardinality(Taken(P)) + 1
             P1 == [P EXCEPT !.pcs = [@ EXCEPT ![h] = NewPc(remoteClientId, isInitiator)]]
             P2 == IF isInitiator THEN setupDataChannel(P1, h, remoteClientId) ELSE P1
         IN  [P2 EXCEPT !.next = [@ EXCEPT ![remoteClientId] =
                                     Peer(h, IF isInitiator THEN h ELSE 0)],
                        !.ret = h]

\* cleanupPeerConnection: close what peersRef holds for peerId, queue the delete.
cleanupPeerConnection(P, peerId) ==
    IF ~P.ref[peerId].has THEN P
    ELSE [P EXCEPT
            !.pcs = [h \in Handles |->
                        IF h = P.ref[peerId].pc THEN ClosePc(@[h])
                        ELSE IF h = P.ref[peerId].dc THEN CloseChan(@[h])
                        ELSE @[h]],
            !.next = [@ EXCEPT ![peerId] = NoPeer]]

RECURSIVE CleanupEach(_, _)
CleanupEach(P, G) ==
    IF G = {} THEN P
    ELSE LET p == CHOOSE q \in G : TRUE
         IN  CleanupEach(cleanupPeerConnection(P, p), G \ {p})

RECURSIVE CreateEach(_, _)
CreateEach(P, J) ==
    IF J = {} THEN P
    ELSE LET r == CHOOSE q \in J : TRUE
         IN  CreateEach(createPeerConnection(P, r, TRUE), J \ {r})

Commit(x, P) ==
    /\ peersNext' = [peersNext EXCEPT ![x] = P.next]
    /\ pcs' = [pcs EXCEPT ![x] = P.pcs]

\* ws.current?.send: queued to the Hub when one runs, else kept for one step.
WsSend(x, msgs) ==
    inbox' = IF scn \in MeshScn THEN [inbox EXCEPT ![ConnOf[x]] = @ \o msgs]
             ELSE [c \in Conns |-> IF c = ConnOf[x] THEN msgs ELSE <<>>]

\* dataChannel.send on the channels of the handles in hs
DcSend(x, hs, d) ==
    chq' = IF scn \in MeshScn
           THEN [chq EXCEPT ![x] = [h \in Handles |-> IF h \in hs THEN Append(@[h], d) ELSE @[h]]]
           ELSE [y \in Ids |-> [h \in Handles |-> IF y = x /\ h \in hs THEN <<d>> ELSE <<>>]]
NoData == Data("", "none")
NoDcSend(x) == DcSend(x, {}, NoData)

\* ------------------------------------------------------------------------
\* Client: the handlers of ws.onmessage
\* ------------------------------------------------------------------------
\* case 'clients': clean up the peers that left, create the new ones
OnClients(x, list) ==
    LET P0 == St(x)
        disconnectedPeers == {p \in Ids : P0.ref[p].has /\ p \notin list /\ p # x}
        newPeers == {r \in list : r # x /\ ~P0.ref[r].has}
        P1 == CleanupEach(P0, disconnectedPeers)
    IN  /\ CanCreate(P1, Cardinality(newPeers))
        /\ Commit(x, CreateEach(P1, newPeers))
        /\ WsSend(x, <<>>)
        /\ NoDcSend(x)
        /\ UNCHANGED <<ws, peersRef, tasks, contentNext, contentRef, recv>>

\* A handleOffer that creates its handle as an initiator would.
handleOfferInitiating(x, offer, remoteClientId) ==
    LET P == createPeerConnection(St(x), remoteClientId, TRUE)
    IN  /\ P.ret <= MaxPc
        /\ Commit(x, P)
        /\ tasks' = [tasks EXCEPT ![x] =
                        @ \cup {[h |-> P.ret, stage |-> "setRemote", offer |-> offer]}]
        /\ WsSend(x, <<>>)
        /\ NoDcSend(x)
        /\ UNCHANGED <<ws, peersRef, contentNext, contentRef, recv>>

\* handleOffer up to its first await
handleOffer(x, offer, remoteClientId) ==
    LET P == createPeerConnection(St(x), remoteClientId, FALSE)
    IN  /\ P.ret <= MaxPc
        /\ Commit(x, P)
        /\ tasks' = [tasks EXCEPT ![x] =
                        @ \cup {[h |-> P.ret, stage |-> "setRemote", offer |-> offer]}]
        /\ WsSend(x, <<>>)
        /\ NoDcSend(x)
        /\ UNCHANGED <<ws, peersRef, contentNext, contentRef, recv>>

\* A handleAnswer whose setRemoteDescription takes an answer in any state.
handleAnswerAlways(x, answer, remoteClientId) ==
    LET h == peersRef[x][remoteClientId].pc
    IN  /\ pcs' = IF /\ peersRef[x][remoteClientId].has
                     /\ h # 0
                     /\ ~pcs[x][h].closed
                  THEN [pcs EXCEPT ![x][h].rdesc = answer, ![x][h].sig = "stable"]
                  ELSE pcs
        /\ WsSend(x, <<>>)
        /\ NoDcSend(x)
        /\ UNCHANGED <<ws, peersRef, peersNext, tasks, contentNext, contentRef, recv>>

\* handleAnswer: setRemoteDescription(answer) on the handle peersRef holds;
\* it rejects unless that handle is open and in have-local-offer.
handleAnswer(x, answer, remoteClientId) ==
    LET h == peersRef[x][remoteClientId].pc
    IN  /\ pcs' = IF /\ peersRef[x][remoteClientId].has
                     /\ h # 0
                     /\ ~pcs[x][h].closed
                     /\ pcs[x][h].sig = "have-local-offer"
                  THEN [pcs EXCEPT ![x][h].rdesc = answer, ![x][h].sig = "stable"]
                  ELSE pcs
        /\ WsSend(x, <<>>)
        /\ NoDcSend(x)
        /\ UNCHANGED <<ws, peersRef, peersNext, tasks, contentNext, contentRef, recv>>

\* handleCandidate: addIceCandidate on the handle peersRef holds; it rejects
\* on a closed handle and before a remote description.
handleCandidate(x, candidate, remoteClientId) ==
    LET h == peersRef[x][remoteClientId].pc
    IN  /\ pcs' = IF /\ peersRef[x][remoteClientId].has
                     /\ h # 0
                     /\ ~pcs[x][h].closed
                     /\ pcs[x][h].rdesc # NoDesc
                  THEN [pcs EXCEPT ![x][h].cand = TRUE]
                  ELSE pcs
        /\ WsSend(x, <<>>)
        /\ NoDcSend(x)
        /\ UNCHANGED <<ws, peersRef, peersNext, tasks, contentNext, contentRef, recv>>

\* a frame of another type: the switch has no default
Ignored(x) ==
    /\ WsSend(x, <<>>)
    /\ NoDcSend(x)
    /\ UNCHANGED <<ws, peersRef, peersNext, pcs, tasks, contentNext, contentRef, recv>>

\* ws.current.onmessage; peers is modelled under the keys of Ids only
onmessage(x, data) ==
    /\ data.type \in RoutedTypes => data.senderId \in Ids
    /\ CASE data.type = TypeClients -> OnClients(x, data.clients)
         [] data.type = TypeOffer -> handleOffer(x, data.payload, data.senderId)
         [] data.type = TypeAnswer -> handleAnswer(x, data.payload, data.senderId)
         [] data.type = TypeCandidate -> handleCandidate(x, data.payload, data.senderId)
         [] OTHER -> Ignored(x)
\* ------------------------------------------------------------------------
\* Client: promise continuations and transport events
\* ------------------------------------------------------------------------
\* The transport has what it needs to connect handle h of x: in a mesh its
\* far end is negotiated with it, each end holding as remote description
\* the local description of the other; alone, its own negotiation is done.
Negotiated(pc) ==
    pc # NoPc /\ ~pc.closed /\ ~pc.failed /\ pc.sig = "stable"
    /\ pc.ldesc # NoDesc /\ pc.rdesc # NoDesc
Far(x, h) == pcs[pcs[x][h].rdesc.o][pcs[x][h].rdesc.h]
Ready(x, h) ==
    /\ Negotiated(pcs[x][h])
    /\ scn \in MeshScn =>
          /\ pcs[x][h].rdesc.o \in Ids
          /\ Negotiated(Far(x, h))
          /\ Far(x, h).rdesc = pcs[x][h].ldesc
          /\ Far(x, h).ldesc = pcs[x][h].rdesc

\* createOffer().then(setLocalDescription).then(ws.send): the chain ends
\* with the offer sent, or rejects on a closed handle or a remote offer.
OfferReady(x, h) ==
    /\ pcs[x][h].offer = "creating"
    /\ IF ~pcs[x][h].closed /\ pcs[x][h].sig \in {"stable", "have-local-offer"}
       THEN /\ pcs' = [pcs EXCEPT ![x][h].ldesc = Offer(x, h),
                                  ![x][h].sig = "have-local-offer",
                                  ![x][h].offer = "sent"]
            /\ WsSend(x, <<Message(TypeOffer, pcs[x][h].remote, NoId, "", {}, Offer(x, h))>>)
       ELSE /\ pcs' = [pcs EXCEPT ![x][h].offer = "dead"]
            /\ WsSend(x, <<>>)
    /\ NoDcSend(x)
    /\ UNCHANGED <<ws, peersRef, peersNext, tasks, contentNext, contentRef, recv>>

\* handleOffer after `await setRemoteDescription(offer)`: on a handle in
\* have-local-offer the browser rolls back (rollback) or rejects.
SetRemoteDone(x, t, rollback) ==
    /\ t \in tasks[x] /\ t.stage = "setRemote"
    /\ LET pc == pcs[x][t.h]
       IN  IF /\ ~pc.closed
              /\ \/ pc.sig \in {"stable", "have-remote-offer"}
                 \/ pc.sig = "have-local-offer" /\ rollback
           THEN /\ pcs' = [pcs EXCEPT ![x][t.h].rdesc = t.offer,
                                      ![x][t.h].sig = "have-remote-offer",
                                      ![x][t.h].ldesc =
                                          IF pc.sig = "have-local-offer" THEN NoDesc ELSE @]
                /\ tasks' = [tasks EXCEPT ![x] =
                                (@ \ {t}) \cup {[t EXCEPT !.stage = "answer"]}]
           ELSE /\ tasks' = [tasks EXCEPT ![x] = @ \ {t}]
                /\ UNCHANGED pcs
    /\ WsSend(x, <<>>)
    /\ NoDcSend(x)
    /\ UNCHANGED <<ws, peersRef, peersNext, contentNext, contentRef, recv>>

\* handleOffer after `await createAnswer()` and `await setLocalDescription`:
\* the answer is sent, or the call throws on a closed or stable handle.
AnswerReady(x, t) ==
    /\ t \in tasks[x] /\ t.stage = "answer"
    /\ LET pc == pcs[x][t.h]
           answer == Answer(x, t.h, pc.rdesc)
       IN  IF ~pc.closed /\ pc.sig = "have-remote-offer"
           THEN /\ pcs' = [pcs EXCEPT ![x][t.h].ldesc = answer, ![x][t.h].sig = "stable"]
                /\ WsSend(x, <<Message(TypeAnswer, pc.remote, NoId, "", {}, answer)>>)
           ELSE /\ UNCHANGED pcs
                /\ WsSend(x, <<>>)
    /\ tasks' = [tasks EXCEPT ![x] = @ \ {t}]
    /\ NoDcSend(x)
    /\ UNCHANGED <<ws, peersRef, peersNext, contentNext, contentRef, recv>>

\* peerConnection.ondatachannel of a responder: setupDataChannel
OnDataChannel(x, h) ==
    /\ ~pcs[x][h].init /\ pcs[x][h].chan = "none" /\ Ready(x, h)
    /\ LET P == setupDataChannel(St(x), h, pcs[x][h].remote)
       IN  Commit(x, [P EXCEPT !.pcs = [@ EXCEPT ![h].chan = "connecting"]])
    /\ WsSend(x, <<>>)
    /\ NoDcSend(x)
    /\ UNCHANGED <<ws, peersRef, tasks, contentNext, contentRef, recv>>

\* An onopen that sends the latest editorText instead of the ref.
OnOpenSendsLatest(x, h) ==
    /\ pcs[x][h].chan = "connecting" /\ Ready(x, h)
    /\ pcs' = [pcs EXCEPT ![x][h].chan = "open",
                          ![x][h].openRef = contentRef[x],
                          ![x][h].openCur = contentNext[x]]
    /\ IF contentNext[x] # ""
       THEN DcSend(x, {h}, Data(contentNext[x], "sync"))
       ELSE NoDcSend(x)
    /\ WsSend(x, <<>>)
    /\ UNCHANGED <<ws, peersRef, peersNext, tasks, contentNext, contentRef, recv>>

\* dataChannel.onopen: send currentContentRef.current if it is not empty
OnOpen(x, h) ==
    /\ pcs[x][h].chan = "connecting" /\ Ready(x, h)
    /\ pcs' = [pcs EXCEPT ![x][h].chan = "open",
                          ![x][h].openRef = contentRef[x],
                          ![x][h].openCur = contentNext[x]]
    /\ IF contentRef[x] # ""
       THEN DcSend(x, {h}, Data(contentRef[x], "sync"))
       ELSE NoDcSend(x)
    /\ WsSend(x, <<>>)
    /\ UNCHANGED <<ws, peersRef, peersNext, tasks, contentNext, contentRef, recv>>

\* dataChannel.onmessage: onDataReceived(event.data), Home's setEditorText
OnData(x, h, d) ==
    /\ pcs[x][h].chan = "open"
    /\ contentNext' = [contentNext EXCEPT ![x] = d.text]
    /\ recv' = IF scn \in MeshScn THEN [recv EXCEPT ![x][h] = Append(@, d)] ELSE recv
    /\ WsSend(x, <<>>)
    /\ UNCHANGED <<ws, peersRef, peersNext, pcs, tasks, contentRef>>
\* peerConnection.onicecandidate with a candidate
onicecandidate(x, h) ==
    /\ pcs[x][h] # NoPc /\ ~pcs[x][h].closed /\ pcs[x][h].ldesc # NoDesc
    /\ WsSend(x, <<Message(TypeCandidate, pcs[x][h].remote, NoId, "", {}, Offer(x, h))>>)
    /\ NoDcSend(x)
    /\ UNCHANGED <<ws, peersRef, peersNext, pcs, tasks, contentNext, contentRef, recv>>

\* oniceconnectionstatechange / onconnectionstatechange reporting a terminal
\* state of handle h: cleanupPeerConnection(remoteClientId)
onconnectionstatechange(x, h) ==
    /\ pcs[x][h] # NoPc /\ ~pcs[x][h].closed /\ ~pcs[x][h].failed
    /\ LET P == [St(x) EXCEPT !.pcs = [@ EXCEPT ![h] = [CloseChan(@) EXCEPT !.failed = TRUE]]]
       IN  Commit(x, cleanupPeerConnection(P, pcs[x][h].remote))
    /\ WsSend(x, <<>>)
    /\ NoDcSend(x)
    /\ UNCHANGED <<ws, peersRef, tasks, contentNext, contentRef, recv>>

\* The entries of the rendered peers whose channel sendData finds open.
OpenPeers(x) ==
    {p \in Ids : /\ peersRef[x][p].has
                 /\ peersRef[x][p].dc # 0
                 /\ pcs[x][peersRef[x][p].dc].chan = "open"}

\* sendData: send on every open channel; clean up the peers whose send throws.
sendData(x, content, throwing) ==
    /\ Commit(x, CleanupEach(St(x), throwing))
    /\ DcSend(x, {peersRef[x][p].dc : p \in OpenPeers(x) \ throwing},
              Data(content, "edit"))

\* Home's handleContentChange: setEditorText(content); sendData(content)
handleContentChange(x, content, throwing) ==
    /\ throwing \subseteq OpenPeers(x)
    /\ contentNext' = [contentNext EXCEPT ![x] = content]
    /\ sendData(x, content, throwing)
    /\ WsSend(x, <<>>)
    /\ UNCHANGED <<ws, peersRef, tasks, contentRef, recv>>

\* A render commits the queued updates; its effects then set the two refs.
Render(x) ==
    /\ peersRef[x] # peersNext[x] \/ contentRef[x] # contentNext[x]
    /\ peersRef' = [peersRef EXCEPT ![x] = peersNext[x]]
    /\ contentRef' = [contentRef EXCEPT ![x] = contentNext[x]]
    /\ WsSend(x, <<>>)
    /\ NoDcSend(x)
    /\ UNCHANGED <<ws, peersNext, pcs, tasks, contentNext, recv>>

\* ws.current.onopen: the joinRoom frame
onopen(x, roomId) ==
    /\ ws[x] = "none"
    /\ ws' = [ws EXCEPT ![x] = "open"]
    /\ WsSend(x, <<Message(TypeJoinRoom, x, NoId, roomId, {}, NoDesc)>>)
    /\ NoDcSend(x)
    /\ UNCHANGED <<peersRef, peersNext, pcs, tasks, contentNext, contentRef, recv>>

\* ------------------------------------------------------------------------
\* Initial states
\* ------------------------------------------------------------------------
HubInit ==
    /\ nread = 0
    /\ build \in Builds
    /\ clients = [id \in Ids |-> NoClient]
    /\ clientsMu = "free"
    /\ senderID = [c \in Conns |-> NoId]
    /\ gpc = [c \in Conns |-> "read"]
    /\ glocal = [c \in Conns |-> NoLocals]
    /\ sent = NoSent
    /\ lastSnap = [c \in Conns |-> NoSnap]
    /\ inbox = NoSent
    /\ wire = NoSent

ClientInit ==
    /\ ws = [x \in Ids |-> "none"]
    /\ peersRef = [x \in Ids |-> NoPeers]
    /\ peersNext = [x \in Ids |-> NoPeers]
    /\ pcs = [x \in Ids |-> NoPcs]
    /\ tasks = [x \in Ids |-> {}]
    /\ contentNext = [x \in Ids |-> ""]
    /\ contentRef = [x \in Ids |-> ""]
    /\ chq = [x \in Ids |-> [h \in Handles |-> <<>>]]
    /\ recv = [x \in Ids |-> [h \in Handles |-> <<>>]]

\* ------------------------------------------------------------------------
\* The Hub alone
\* ------------------------------------------------------------------------
Receive ==
    /\ nread < MaxFrames
    /\ \E conn \in Conns : \E msg \in Frames(conn) : handleConnections(conn, msg)
    /\ nread' = nread + 1
    /\ UNCHANGED <<inbox, cliVars>>

Drop ==
    /\ nread < MaxFrames
    /\ \E conn \in Conns : \E err \in ReadErrors : ReadJSONError(conn, err)
    /\ nread' = nread + 1
    /\ UNCHANGED <<inbox, cliVars>>

Broadcast ==
    /\ \E conn \in Conns : broadcastClientsInRoom(conn)
    /\ UNCHANGED <<nread, inbox, cliVars>>

BroadcastSend ==
    /\ \E conn \in Conns : BroadcastWrite(conn)
    /\ UNCHANGED <<nread, inbox, cliVars>>

\* Routing: joins, drops and routed frames.
InitRoute == scn = "route" /\ HubInit /\ ClientInit
NextRoute == Receive \/ Drop \/ Broadcast \/ BroadcastSend
SpecRoute == InitRoute /\ [][NextRoute]_vars

\* Membership: joins, drops, getClients and unknown types.
InitRooms == scn = "rooms" /\ HubInit /\ ClientInit
NextRooms == Receive \/ Drop \/ Broadcast \/ BroadcastSend
SpecRooms == InitRooms /\ [][NextRooms]_vars

\* Write errors and moves: the members of room r1 join and drop, and a
\* record may stay behind on a connection that is gone; C alone may join
\* r2, before or after r1.
RoomJoin ==
    /\ nread <= MaxFrames
    /\ \E conn \in Conns : \E msg \in RoomFrames(conn) : handleConnections(conn, msg)
    /\ nread' = nread + 1
    /\ UNCHANGED <<inbox, cliVars>>

RoomDrop ==
    /\ nread <= MaxFrames
    /\ \E conn \in Conns : ReadJSONError(conn, "close")
    /\ nread' = nread + 1
    /\ UNCHANGED <<inbox, cliVars>>

InitFail == scn = "fail" /\ HubInit /\ ClientInit
NextFail == RoomJoin \/ RoomDrop \/ Broadcast \/ BroadcastSend
SpecFail == InitFail /\ [][NextFail]_vars

\* Writes that take time: forwardMessage up to its call of
\* targetClient.Conn.WriteJSON, made after clientsMu.Unlock(). Here wire
\* holds, per connection, the write calls on it that have not returned,
\* each as <<goroutine, frame>>.
ForwardBegin ==
    /\ nread < MaxFrames
    /\ \E conn \in Conns : \E msg \in RoutedFrames :
          /\ gpc[conn] = "read" /\ clientsMu = "free"
          /\ IF clients[msg.clientId] # NoClient
             THEN /\ gpc' = [gpc EXCEPT ![conn] = "fwdWrite"]
                  /\ wire' = [wire EXCEPT ![clients[msg.clientId].Conn] =
                                 Append(@, <<conn, Stamp(msg, senderID[conn])>>)]
             ELSE UNCHANGED <<gpc, wire>>
    /\ nread' = nread + 1
    /\ sent' = NoSent
    /\ UNCHANGED <<scn, build, clients, clientsMu, senderID, glocal, lastSnap,
                   inbox, cliVars>>

\* WriteJSON returns: the frame is written and the read loop goes on.
ForwardEnd ==
    /\ \E conn, c \in Conns : \E i \in 1..Len(wire[c]) :
          /\ gpc[conn] = "fwdWrite" /\ wire[c][i][1] = conn
          /\ gpc' = [gpc EXCEPT ![conn] = "read"]
          /\ wire' = [wire EXCEPT ![c] =
                         SubSeq(@, 1, i - 1) \o SubSeq(@, i + 1, Len(@))]
          /\ sent' = [d \in Conns |-> IF d = c THEN <<wire[c][i][2]>> ELSE <<>>]
    /\ UNCHANGED <<nread, scn, build, clients, clientsMu, senderID, glocal, lastSnap,
                   inbox, cliVars>>

InitRace == scn = "race" /\ HubInit /\ ClientInit
NextRace == RoomJoin \/ Broadcast \/ BroadcastSend \/ ForwardBegin \/ ForwardEnd
SpecRace == InitRace /\ [][NextRace]_vars
\* ------------------------------------------------------------------------
\* Client steps common to every scenario with clients
\* ------------------------------------------------------------------------
Members == IF scn \in {"coord", "solo"} THEN {"A"} ELSE {"A", "B"}

OfferSent ==
    /\ \E x \in Members : \E h \in Handles : OfferReady(x, h)
    /\ UNCHANGED <<nread, hubVars, wire>>

RemoteSet ==
    /\ \E x \in Members : \E t \in tasks[x] : \E rollback \in BOOLEAN :
          SetRemoteDone(x, t, rollback)
    /\ UNCHANGED <<nread, hubVars, wire>>

AnswerSent ==
    /\ \E x \in Members : \E t \in tasks[x] : AnswerReady(x, t)
    /\ UNCHANGED <<nread, hubVars, wire>>

ChannelAnnounced ==
    /\ \E x \in Members : \E h \in Handles : OnDataChannel(x, h)
    /\ UNCHANGED <<nread, hubVars, wire>>

ChannelOpened ==
    /\ \E x \in Members : \E h \in Handles : OnOpen(x, h)
    /\ UNCHANGED <<nread, hubVars, wire>>

Rendered ==
    /\ \E x \in Members : Render(x)
    /\ UNCHANGED <<nread, hubVars, wire>>

\* ------------------------------------------------------------------------
\* One coordinator, the Hub and the peers being its environment
\* ------------------------------------------------------------------------
\* Bound: the frames, data, edits and failures the environment brings.
MaxEvents == 3

\* The ids the frames name: any id, or B alone where A has one peer.
Remotes == IF scn = "solo" THEN {"B"} ELSE Ids

CoordFrames ==
    {Message(TypeClients, NoId, NoId, "", list, NoDesc) : list \in SUBSET Remotes}
    \cup {Message(TypeOffer, NoId, r, "", {}, Offer(r, 1)) : r \in Remotes}
    \cup {Message(TypeAnswer, NoId, r, "", {}, Answer(r, 1, Offer("A", 1))) : r \in Remotes}
    \cup {Message(TypeCandidate, NoId, r, "", {}, Offer(r, 1)) : r \in Remotes}
    \cup {Message(TypeNewClient, NoId, NoId, "", {}, NoDesc)}

CoordStart ==
    /\ onopen("A", "r1")
    /\ UNCHANGED <<nread, hubVars, wire>>

CoordFrame ==
    /\ ws["A"] = "open" /\ nread < MaxEvents
    /\ \E data \in CoordFrames : onmessage("A", data)
    /\ nread' = nread + 1
    /\ UNCHANGED <<hubVars, wire>>

CoordData ==
    /\ nread < MaxEvents
    /\ \E h \in Handles : OnData("A", h, Data("bye", "edit")) /\ NoDcSend("A")
    /\ nread' = nread + 1
    /\ UNCHANGED <<hubVars, wire>>

CoordEdit ==
    /\ nread < MaxEvents
    /\ \E throwing \in SUBSET Remotes : handleContentChange("A", "hello", throwing)
    /\ nread' = nread + 1
    /\ UNCHANGED <<hubVars, wire>>

CandidateFound ==
    /\ nread < MaxEvents
    /\ \E h \in Handles : onicecandidate("A", h)
    /\ nread' = nread + 1
    /\ UNCHANGED <<hubVars, wire>>

TransportFailed ==
    /\ nread < MaxEvents
    /\ \E h \in Handles : onconnectionstatechange("A", h)
    /\ nread' = nread + 1
    /\ UNCHANGED <<hubVars, wire>>

InitCoord == scn = "coord" /\ HubInit /\ build = "main" /\ ClientInit
NextCoord ==
    \/ CoordStart \/ CoordFrame \/ CoordData \/ CoordEdit \/ CandidateFound
    \/ TransportFailed \/ OfferSent \/ RemoteSet \/ AnswerSent
    \/ ChannelAnnounced \/ ChannelOpened \/ Rendered
SpecCoord == InitCoord /\ [][NextCoord]_vars

\* The same coordinator with B as its only peer.
InitSolo == scn = "solo" /\ HubInit /\ build = "main" /\ ClientInit
SpecSolo == InitSolo /\ [][NextCoord]_vars
\* ------------------------------------------------------------------------
\* Clients and the Hub together: users open their sessions one after another
\* in room r1; no connection drops, no transport fails, no send throws
\* ------------------------------------------------------------------------
\* Bound: the edits users make in a run.
MaxEdits == 3

Before == [x \in Ids |-> IF x = "B" THEN "A" ELSE NoId]

Joined(x) ==
    clients[x] # NoClient /\ gpc[ConnOf[x]] = "read" /\ inbox[ConnOf[x]] = <<>>

SessionStart ==
    /\ \E x \in Members :
          /\ Before[x] # NoId => Joined(Before[x])
          /\ onopen(x, "r1")
    /\ UNCHANGED <<nread, hubVars, wire>>

HubRead ==
    /\ \E conn \in Conns :
          /\ inbox[conn] # <<>>
          /\ handleConnections(conn, Head(inbox[conn]))
          /\ inbox' = [inbox EXCEPT ![conn] = Tail(@)]
    /\ UNCHANGED <<nread, cliVars>>

ClientFrame ==
    /\ \E x \in Members :
          /\ wire[ConnOf[x]] # <<>>
          /\ onmessage(x, Head(wire[ConnOf[x]]))
          /\ wire' = [wire EXCEPT ![ConnOf[x]] = Tail(@)]
    /\ UNCHANGED <<nread, hubVars>>

DataDelivered ==
    /\ \E x \in Members : \E h \in Handles :
          /\ chq[x][h] # <<>>
          /\ Ready(x, h)
          /\ OnData(pcs[x][h].rdesc.o, pcs[x][h].rdesc.h, Head(chq[x][h]))
          /\ chq' = [chq EXCEPT ![x][h] = Tail(@)]
    /\ UNCHANGED <<nread, hubVars, wire>>

Edited ==
    /\ nread < MaxEdits
    /\ \E x \in Members : \E content \in Texts \ {""} : handleContentChange(x, content, {})
    /\ nread' = nread + 1
    /\ UNCHANGED <<hubVars, wire>>

\* Two users, A then B, who also edit.
InitPair == scn = "pair" /\ HubInit /\ ClientInit
NextPair ==
    \/ SessionStart \/ HubRead \/ Broadcast \/ BroadcastSend \/ ClientFrame
    \/ OfferSent \/ RemoteSet \/ AnswerSent \/ ChannelAnnounced \/ ChannelOpened
    \/ DataDelivered \/ Edited \/ Rendered
SpecPair == InitPair /\ [][NextPair]_vars

\* x holds a handle for y whose channel is open at both ends of the link.
Linked(x, y) ==
    \E h \in Handles :
        /\ pcs[x][h] # NoPc /\ pcs[x][h].remote = y
        /\ pcs[x][h].chan = "open"
        /\ Ready(x, h)
        /\ Far(x, h).chan = "open"

\* A's socket to the Hub drops once A and B are linked: ReadJSON fails on
\* A's connection after the frames A sent have been read.
SocketDropped ==
    /\ Linked("A", "B")
    /\ inbox[ConnOf["A"]] = <<>>
    /\ ReadJSONError(ConnOf["A"], "close")
    /\ UNCHANGED <<nread, inbox, cliVars>>

\* Two users, A then B, who link and edit; then A's socket drops.
InitLeave == scn = "leave" /\ HubInit /\ ClientInit
NextLeave ==
    \/ SessionStart \/ HubRead \/ Broadcast \/ BroadcastSend \/ ClientFrame
    \/ OfferSent \/ RemoteSet \/ AnswerSent \/ ChannelAnnounced \/ ChannelOpened
    \/ DataDelivered \/ Edited \/ Rendered \/ SocketDropped
SpecLeave == InitLeave /\ [][NextLeave]_vars

\* x has sent an offer to y on an initiator handle and has no answer yet.
Outstanding(x, y) ==
    \E h \in Handles :
        /\ pcs[x][h].init /\ pcs[x][h].remote = y /\ ~pcs[x][h].closed
        /\ pcs[x][h].offer = "sent" /\ pcs[x][h].sig = "have-local-offer"

\* Users open their sessions in room r1 at the same time.
ConcurrentStart ==
    /\ \E x \in Members : onopen(x, "r1")
    /\ UNCHANGED <<nread, hubVars, wire>>

\* ws.onmessage of a client; nread counts the offers that reach a client
\* whose own offer to the sender is outstanding.
GlareFrame ==
    /\ \E x \in Members :
          LET data == Head(wire[ConnOf[x]])
          IN  /\ wire[ConnOf[x]] # <<>>
              /\ onmessage(x, data)
              /\ wire' = [wire EXCEPT ![ConnOf[x]] = Tail(@)]
              /\ nread' = IF data.type = TypeOffer /\ Outstanding(x, data.senderId)
                          THEN nread + 1 ELSE nread
    /\ UNCHANGED hubVars

\* Two users who join at the same time: the broadcast of each join may list
\* the other, and then both initiate.
InitGlare == scn = "glare" /\ HubInit /\ ClientInit
NextGlare ==
    \/ ConcurrentStart \/ HubRead \/ Broadcast \/ BroadcastSend \/ GlareFrame
    \/ OfferSent \/ RemoteSet \/ AnswerSent \/ ChannelAnnounced \/ ChannelOpened
    \/ Rendered
SpecGlare == InitGlare /\ [][NextGlare]_vars

C4_SenderIdIsRegistryId ==
    [][\A conn \in Conns : \A msg \in RoutedFrames :
          handleConnections(conn, msg)
          => \A c \in Conns : \A i \in 1..Len(sent'[c]) :
                 sent'[c][i].senderId \in getClientId(conn)]_vars

\* C4 amended: the senderId of every routed frame the Hub writes is the
\* clientId of the last createRoom/joinRoom frame it read on the sending
\* connection (empty if there was none), whatever senderId the client wrote
\* and whether or not the registry still holds that id for the connection.
C4_SenderIdIsLastJoinId ==
    [][\A conn \in Conns : \A msg \in RoutedFrames :
          handleConnections(conn, msg)
          => \A c \in Conns : \A i \in 1..Len(sent'[c]) :
                 sent'[c][i].senderId = senderID[conn]]_vars

\* a routed frame was written with senderId B, which no client wrote itself
C4_Witness ==
    \E c \in Conns :
        /\ sent[c] # <<>>
        /\ sent[c][1].type \in RoutedTypes
        /\ sent[c][1].senderId = "B"
        /\ "B" \notin SpoofIds
\* No broadcast of the Hub is under way.
HubQuiet == \A c \in Conns : gpc[c] \notin {"bcastList", "bcastWrite"}

\* the last snapshot written to a connection, none read as the empty one
Snap(c) == IF lastSnap[c] = NoSnap THEN {} ELSE lastSnap[c]

\* C5 as stated: with no broadcast under way, for every registered member m
\* the last snapshot written to m's connection, m removed, is the set of ids
\* the registry holds for m's room, m removed.
C5_LastSnapshotIsRegistry ==
    HubQuiet =>
        \A m \in Registered :
            Snap(clients[m].Conn) \ {m} = RoomList(clients, clients[m].RoomId) \ {m}

\* C6 as stated, its first half: once the disconnect handling of a dropped
\* connection has run, the registry holds no record of that connection.
C6_NoRecordOfDroppedConn ==
    \A c \in Conns : gpc[c] = "closed" => getClientId(c) = {}

\* The step of a join's broadcast that writes: BroadcastWrite in build main,
\* the whole of broadcastClientsInRoom in build cmd.
JoinWrite(conn) ==
    /\ glocal[conn].exclude # {}
    /\ \/ BroadcastWrite(conn)
       \/ build = "cmd" /\ broadcastClientsInRoom(conn)

C12_ReadErrorKeepsConnection ==
    [][\A conn \in Conns :
          ReadJSONError(conn, "syntax") => gpc'[conn] = "read" /\ clients' = clients]_vars

\* the types the switch of handleConnections has a case for
KnownTypes == JoinTypes \cup RoutedTypes \cup {TypeGetClients}

\* C13: a frame whose type the switch has no case for is dropped: the step
\* writes to no connection, leaves the registry and the mutex as they were,
\* and the read loop of the connection goes on.
C13_UnknownTypeDropped ==
    [][\A conn \in Conns : \A msg \in OtherFrames :
          (msg.type \notin KnownTypes /\ handleConnections(conn, msg))
          => /\ sent' = NoSent
             /\ clients' = clients
             /\ clientsMu' = clientsMu
             /\ senderID' = senderID
             /\ gpc'[conn] = "read"]_vars

\* the one frame read so far had an unknown type: nothing was written,
\* nothing registered, and every read loop still runs
C13_Witness ==
    /\ scn = "rooms" /\ nread = 1
    /\ sent = NoSent /\ Registered = {}
    /\ \A c \in Conns : gpc[c] = "read" /\ lastSnap[c] = NoSnap

\* C14: a routed frame whose target is not registered is written to no
\* connection, the sender's included, and leaves the registry as it was;
\* and the Hub keeps no frame for later: every routed frame a step writes is
\* the frame read in that very step, its target registered at that moment.
C14_MissIsDropped ==
    [][/\ \A conn \in Conns : \A msg \in RoutedFrames :
             (clients[msg.clientId] = NoClient /\ handleConnections(conn, msg))
             => sent' = NoSent /\ clients' = clients
       /\ \A c \in Conns : \A i \in 1..Len(sent'[c]) :
             sent'[c][i].type \in RoutedTypes
             => \E conn \in Conns : \E msg \in RoutedFrames :
                    /\ handleConnections(conn, msg)
                    /\ clients[msg.clientId] # NoClient
                    /\ clients[msg.clientId].Conn = c
                    /\ sent'[c][i] = Stamp(msg, senderID[conn])]_vars

\* the one frame read so far was a routed frame to an id nobody registered
C14_Witness ==
    /\ scn = "route" /\ nread = 1
    /\ sent = NoSent /\ Registered = {}
    /\ \A c \in Conns : gpc[c] = "read"

\* C15 as stated: a routed frame from a sender registered in a room is
\* written only to a target registered in the same room.
C15_RoutedWithinRoom ==
    [][\A conn \in Conns : \A a \in Ids : \A msg \in RoutedFrames :
          ( /\ senderID[conn] = a
            /\ clients[a] # NoClient /\ clients[a].Conn = conn
            /\ handleConnections(conn, msg) )
          => \A c \in Conns :
                 sent'[c] # <<>> => clients[msg.clientId].RoomId = clients[a].RoomId]_vars

\* C17 as stated, for the recipients loop: the loop over the registry runs
\* only when its goroutine can hold the mutex, so never while another
\* goroutine holds it.
C17_EnumerationNeedsMutex ==
    [][\A conn \in Conns : BroadcastWrite(conn) => clientsMu = "free"]_vars

\* C18 as stated: whatever connection's read loop ends, the mutex is free
\* again afterwards and no goroutine has panicked or waits for the mutex.
C18_NoFaultAfterDisconnect ==
    /\ clientsMu = "free"
    /\ \A c \in Conns : gpc[c] \notin {"panicked", "blocked"}

\* The step of a broadcast that writes: BroadcastWrite in build main, the
\* whole of broadcastClientsInRoom in build cmd.
SnapshotWrite(conn) ==
    \/ BroadcastWrite(conn)
    \/ build = "cmd" /\ clientsMu = "free" /\ broadcastClientsInRoom(conn)

\* C22: a broadcast for room R lists the ids whose record has room R when
\* the list is taken under the lock, and every snapshot a step writes is
\* either the answer to a getClients frame, written to the asking
\* connection, or such a list written by a broadcast for a room R to a
\* connection on which a record of room R is registered; so a join or a
\* disconnect in R writes nothing to a connection with no record in R.
C22_SnapshotScopedToRoom ==
    [][/\ \A conn \in Conns :
             (build = "main" /\ clientsMu = "free" /\ broadcastClientsInRoom(conn))
             => glocal'[conn].clientList = RoomList(clients, glocal[conn].roomId)
       /\ \A c \in Conns : \A i \in 1..Len(sent'[c]) :
             sent'[c][i].type = TypeClients
             => \/ \E msg \in OtherFrames :
                       /\ msg.type = TypeGetClients
                       /\ handleConnections(c, msg)
                \/ \E conn \in Conns :
                       /\ SnapshotWrite(conn)
                       /\ sent'[c][i] = ClientsMsg(IF build = "main"
                                           THEN glocal[conn].clientList
                                           ELSE RoomList(clients, glocal[conn].roomId))
                       /\ \E id \in RoomList(clients, glocal[conn].roomId) :
                              clients[id].Conn = c]_vars

\* a broadcast for r1 has just written to a member of r1 while a connection
\* registered in r2 only was written nothing, now or before
C22_Witness ==
    \E c, d \in Conns :
        /\ HubQuiet
        /\ sent[c] # <<>> /\ sent[c][1].type = TypeClients
        /\ Cardinality(sent[c][1].clients) = 2
        /\ \E id \in RoomList(clients, "r1") : clients[id].Conn = c
        /\ sent[d] = <<>> /\ lastSnap[d] = NoSnap
        /\ \E id \in RoomList(clients, "r2") : clients[id].Conn = d
        /\ \A id \in RoomList(clients, "r1") : clients[id].Conn # d

\* C23: a createRoom or joinRoom frame the Hub handles sets the record of
\* its clientId to (clientId, roomId, the connection it came on), whatever
\* record that id had before, and leaves every other record as it was.
C23_JoinSetsRecord ==
    [][\A conn \in Conns : \A msg \in JoinFrames(conn) :
          (clientsMu = "free" /\ handleConnections(conn, msg))
          => /\ clients'[msg.clientId] = NewClient(msg.clientId, msg.roomId, conn)
             /\ \A id \in Ids \ {msg.clientId} : clients'[id] = clients[id]]_vars

\* c1 has just registered B, an id c2 had joined under before
C23_Witness ==
    /\ clients["B"] # NoClient /\ clients["B"].Conn = "c1"
    /\ senderID["c2"] = "B"
    /\ gpc["c1"] = "bcastList" /\ glocal["c1"].exclude = {"B"}

\* C24: a getClients frame is answered on the asking connection alone, with
\* one clients frame listing the ids registered in the room the frame names,
\* the asking connection's own ids in that room included; the registry stays
\* as it was.
C24_ListToAskerOnly ==
    [][\A conn \in Conns : \A msg \in OtherFrames :
          (msg.type = TypeGetClients /\ clientsMu = "free" /\ handleConnections(conn, msg))
          => /\ sent' = [c \in Conns |->
                           IF c = conn THEN <<ClientsMsg(RoomList(clients, msg.roomId))>>
                           ELSE <<>>]
             /\ \A id \in getClientId(conn) :
                   clients[id].RoomId = msg.roomId => id \in sent'[conn][1].clients
             /\ clients' = clients
             /\ gpc'[conn] = "read"]_vars

\* A joined alone and then asked: the answer lists A and went to A only
C24_Witness ==
    /\ scn = "rooms" /\ nread = 2
    /\ Registered = {"A"}
    /\ sent = [c \in Conns |-> IF c = "c1" THEN <<ClientsMsg({"A"})>> ELSE <<>>]
    /\ \A c \in Conns : gpc[c] = "read"

\* C25: every frame the Hub writes when it handles a routed frame is the
\* frame it read, with the same type, clientId and payload and every other
\* field but senderId as read.
C25_ForwardedUnchanged ==
    [][\A conn \in Conns : \A msg \in RoutedFrames :
          handleConnections(conn, msg)
          => \A c \in Conns : \A i \in 1..Len(sent'[c]) :
                 sent'[c][i] = [msg EXCEPT !.senderId = sent'[c][i].senderId]]_vars

\* an offer from the connection that joined as C was written to A's
C25_Witness ==
    \E c \in Conns :
        /\ Len(sent[c]) = 1
        /\ sent[c][1].type = TypeOffer
        /\ sent[c][1].payload \in Payloads
        /\ sent[c][1].senderId = "C"
        /\ sent[c][1].clientId = "A"
        /\ clients["A"] # NoClient /\ clients["A"].Conn = c

\* C30: the recipients loop of a broadcast goes on after a write error: the
\* snapshot reaches every member of the room the loop does not exclude and
\* whose connection is not gone, whichever other recipients' writes fail.
C30_WriteErrorSkipsOne ==
    [][\A conn \in Conns :
          SnapshotWrite(conn)
          => \A id \in RoomList(clients, glocal[conn].roomId) \ glocal[conn].exclude :
                 /\ sent'[clients[id].Conn] # <<>>
                 /\ ~Gone(clients[id].Conn)
                    => /\ wire'[clients[id].Conn] # <<>>
                       /\ wire'[clients[id].Conn][1].type = TypeClients]_vars

\* one broadcast has just written to a connection that is gone, where the
\* write failed, and to one that is not, which took the snapshot
C30_Witness ==
    \E c, d \in Conns :
        /\ scn = "fail" /\ c # d
        /\ Gone(c) /\ sent[c] # <<>> /\ wire[c] = <<>>
        /\ ~Gone(d) /\ sent[d] # <<>> /\ wire[d] = sent[d]

\* C32: the disconnect handling of a connection leaves as it was every
\* record that holds another connection; so the record of an id that a
\* newer connection has re-registered survives the close of the older one.
C32_TakeoverSurvivesClose ==
    [][\A conn \in Conns : \A err \in ReadErrors :
          ReadJSONError(conn, err)
          => \A id \in Ids :
                 (clients[id] # NoClient /\ clients[id].Conn # conn)
                 => clients'[id] = clients[id]]_vars

\* c2 joined as B, c1 re-registered B, and the disconnect handling of c2 has
\* run: the registry still maps B to c1
C32_Witness ==
    /\ senderID["c2"] = "B"
    /\ gpc["c2"] \in {"closed", "panicked"}
    /\ clients["B"] # NoClient /\ clients["B"].Conn = "c1"

\* C33 as stated: every offer, answer or candidate the Hub writes carries
\* a senderId that is not empty.
C33_SenderIdNeverEmpty ==
    [][\A c \in Conns : \A i \in 1..Len(sent'[c]) :
          sent'[c][i].type \in RoutedTypes => sent'[c][i].senderId # NoId]_vars

\* C36 as stated: on no connection are two write calls under way at once,
\* and no step writes to a connection on which a write call of another
\* goroutine has not returned.
C36_WritesSerialized ==
    \A c \in Conns :
        /\ Len(wire[c]) <= 1
        /\ wire[c] # <<>> => sent[c] = <<>>

\* C37 as stated, its end: once C has moved to r2 and no broadcast is under
\* way, no member of r1 holds a last snapshot that lists C.
C37_OldRoomLearnsOfMove ==
    ( /\ scn = "fail" /\ HubQuiet
      /\ clients["C"] # NoClient /\ clients["C"].RoomId = "r2" )
    => \A m \in RoomList(clients, "r1") : "C" \notin Snap(clients[m].Conn)

\* C38 as stated: no connection is the Conn of two records.
C38_OneRecordPerConnection ==
    \A c \in Conns : Cardinality(getClientId(c)) <= 1

\* ------------------------------------------------------------------------
\* Properties of one coordinator
\* ------------------------------------------------------------------------
\* The handles of x for remote id r that are allocated and not closed.
Live(x, r) ==
    {h \in Handles : pcs[x][h] # NoPc /\ pcs[x][h].remote = r /\ ~pcs[x][h].closed}

\* C1 as stated: a client has at most one live handle per remote id, and it
\* is the handle its peers state, with every queued update applied, records
\* for that id.
C1_OneLiveHandlePerRemote ==
    \A x \in Ids : \A r \in Ids :
        /\ Cardinality(Live(x, r)) <= 1
        /\ \A h \in Live(x, r) : peersNext[x][r].has /\ peersNext[x][r].pc = h

\* The initiator handles of x for remote id r.
Initiated(x, r) ==
    {h \in Handles : pcs[x][h] # NoPc /\ pcs[x][h].remote = r /\ pcs[x][h].init}

\* C2 as stated: as long as no handle for r was torn down, the calls of
\* createPeerConnection(r, true) have made one handle and sent at most one
\* offer to r.
C2_CreateTwiceOneHandle ==
    \A x \in Ids : \A r \in Ids :
        (\A h \in Initiated(x, r) : ~pcs[x][h].closed /\ ~pcs[x][h].failed)
        => /\ Cardinality(Initiated(x, r)) <= 1
           /\ Cardinality({h \in Initiated(x, r) : pcs[x][h].offer = "sent"}) <= 1

\* C16 as stated, its outcome: once a `clients` snapshot is handled, the
\* remote ids the client has a record for are the ids of the snapshot, the
\* client's own left out.
C16_SnapshotResyncsRecords ==
    [][\A data \in CoordFrames :
          (data.type = TypeClients /\ onmessage("A", data))
          => {r \in Ids \ {"A"} : peersNext'["A"][r].has} = data.clients \ {"A"}]_vars

\* C19 as stated: an offer or an answer is sent to the Hub for remote id r
\* only while the client has a record for r.
C19_NoSendAfterTeardown ==
    [][\A i \in 1..Len(inbox'[ConnOf["A"]]) :
          inbox'[ConnOf["A"]][i].type \in {TypeOffer, TypeAnswer}
          => peersNext["A"][inbox'[ConnOf["A"]][i].clientId].has]_vars

\* A negotiation step on handle h of x is suspended: the offer chain has not
\* ended, or a handleOffer call waits at an await.
Suspended(x, h) ==
    pcs[x][h].offer = "creating" \/ \E t \in tasks[x] : t.h = h

\* The handle the handler of a routed frame acts on, 0 if it finds none.
ActsOn(x, data) ==
    IF data.type = TypeOffer
    THEN createPeerConnection(St(x), data.senderId, FALSE).ret
    ELSE IF peersRef[x][data.senderId].has THEN peersRef[x][data.senderId].pc ELSE 0

\* C20 as stated: the handler of an offer, answer or candidate never starts
\* on a handle on which a negotiation step is suspended.
C20_OneStepPerRemote ==
    [][\A data \in CoordFrames :
          (data.type \in RoutedTypes /\ onmessage("A", data))
          => (ActsOn("A", data) \in Handles => ~Suspended("A", ActsOn("A", data)))]_vars

AnswerOf(x, h) ==
    Message(TypeAnswer, pcs[x][h].remote, NoId, "", {}, Answer(x, h, pcs[x][h].rdesc))

\* C27 as stated, its end: no handleOffer call ends at an await without
\* its answer sent to the remote id.
C27_OneAnswerPerOffer ==
    [][\A t \in tasks["A"] :
          t \notin tasks'["A"]
          => \/ t.stage = "setRemote" /\ [t EXCEPT !.stage = "answer"] \in tasks'["A"]
             \/ t.stage = "answer" /\ inbox'[ConnOf["A"]] = <<AnswerOf("A", t.h)>>]_vars

\* C27 amended: handleOffer takes the handle the rendered peers hold for
\* the remote id or, when they hold none, makes a responder handle and its
\* record, and sends nothing before its awaits; the call then sends at
\* most one answer, addressed to the handle's remote id, and sends it
\* exactly when the handle is open and in have-remote-offer as the answer
\* is made; otherwise the call ends with no answer sent.
C27_AnswerWhenHandleAccepts ==
    [][/\ \A data \in CoordFrames :
             (data.type = TypeOffer /\ onmessage("A", data))
             => LET r == data.senderId
                    h == ActsOn("A", data)
                IN  /\ inbox'[ConnOf["A"]] = <<>>
                    /\ [h |-> h, stage |-> "setRemote", offer |-> data.payload]
                           \in tasks'["A"]
                    /\ IF peersRef["A"][r].has /\ peersRef["A"][r].pc # 0
                       THEN /\ h = peersRef["A"][r].pc
                            /\ pcs' = pcs /\ peersNext' = peersNext
                       ELSE /\ pcs["A"][h] = NoPc
                            /\ pcs' = [pcs EXCEPT !["A"][h] = NewPc(r, FALSE)]
                            /\ peersNext' = [peersNext EXCEPT !["A"][r] = Peer(h, 0)]
       /\ \A t \in tasks["A"] :
             t \notin tasks'["A"]
             => LET pc == pcs["A"][t.h]
                IN  IF t.stage = "setRemote"
                    THEN /\ inbox'[ConnOf["A"]] = <<>>
                         /\ pcs' # pcs
                            => ~pc.closed /\ pcs'["A"][t.h].rdesc = t.offer
                    ELSE inbox'[ConnOf["A"]] =
                            IF ~pc.closed /\ pc.sig = "have-remote-offer"
                            THEN <<AnswerOf("A", t.h)>> ELSE <<>>
       /\ \A i \in 1..Len(inbox'[ConnOf["A"]]) :
             inbox'[ConnOf["A"]][i].type = TypeAnswer
             => /\ Len(inbox'[ConnOf["A"]]) = 1
                /\ \E t \in tasks["A"] :
                       /\ t.stage = "answer" /\ t \notin tasks'["A"]
                       /\ inbox'[ConnOf["A"]][i] = AnswerOf("A", t.h)]_vars

\* a responder handle of A has just sent its answer to its remote id
C27_Witness ==
    \E h \in Handles :
        /\ scn = "solo"
        /\ ~pcs["A"][h].init /\ pcs["A"][h].remote \in Ids
        /\ pcs["A"][h].sig = "stable"
        /\ Len(inbox[ConnOf["A"]]) = 1
        /\ inbox[ConnOf["A"]][1].type = TypeAnswer
        /\ inbox[ConnOf["A"]][1].clientId = pcs["A"][h].remote
        /\ inbox[ConnOf["A"]][1].payload = pcs["A"][h].ldesc
        /\ tasks["A"] = {}

\* C28 as stated: when the transport of handle h reports a terminal state,
\* h and its channel are closed, the record for h's remote id is removed,
\* and the content of the editor is left as it was.
C28_TerminalStateTearsDown ==
    [][\A h \in Handles :
          onconnectionstatechange("A", h)
          => /\ pcs'["A"][h].closed
             /\ pcs'["A"][h].chan \notin {"connecting", "open"}
             /\ ~peersNext'["A"][pcs["A"][h].remote].has
             /\ contentNext' = contentNext]_vars

\* C29 as stated: an edit writes on every open channel of an open handle
\* but those whose write throws; a write that throws tears down its own
\* link, and no record or handle of another remote id changes.
C29_SendOnEveryOpenLink ==
    [][\A throwing \in SUBSET Ids :
          handleContentChange("A", "hello", throwing)
          => /\ \A h \in Handles :
                   (pcs["A"][h].chan = "open" /\ ~pcs["A"][h].closed)
                   => \/ chq'["A"][h] = <<Data("hello", "edit")>>
                      \/ \E p \in throwing :
                            /\ peersRef["A"][p].dc = h
                            /\ pcs'["A"][h].closed
                            /\ ~peersNext'["A"][p].has
             /\ \A h \in Handles :
                   pcs["A"][h].remote \notin throwing => pcs'["A"][h] = pcs["A"][h]
             /\ \A p \in Ids \ throwing : peersNext'["A"][p] = peersNext["A"][p]]_vars

\* C31: a step changes the record of remote id p, or a handle made for p,
\* only if it is an operation for p: the handling of an offer, answer or
\* candidate from p, of a snapshot in which p is new or has left, a
\* continuation or a transport event of a handle made for p, or an edit
\* whose write to p throws. So every operation for one remote id leaves
\* the records and handles of all others as they were.
C31_OtherLinksUntouched ==
    [][\A p \in Ids :
          ( \/ peersNext'["A"][p] # peersNext["A"][p]
            \/ \E h \in Handles :
                  /\ pcs'["A"][h] # pcs["A"][h]
                  /\ pcs["A"][h].remote = p \/ pcs'["A"][h].remote = p )
          => \/ \E data \in CoordFrames :
                   /\ onmessage("A", data)
                   /\ \/ data.type \in RoutedTypes /\ data.senderId = p
                      \/ /\ data.type = TypeClients
                         /\ p \in data.clients <=> ~peersRef["A"][p].has
             \/ \E h \in Handles :
                   /\ pcs["A"][h].remote = p
                   /\ \/ OfferReady("A", h)
                      \/ OnDataChannel("A", h)
                      \/ OnOpen("A", h)
                      \/ onconnectionstatechange("A", h)
                      \/ \E t \in tasks["A"] :
                            /\ t.h = h
                            /\ \/ AnswerReady("A", t)
                               \/ \E rollback \in BOOLEAN : SetRemoteDone("A", t, rollback)
             \/ \E throwing \in SUBSET Remotes :
                   p \in throwing /\ handleContentChange("A", "hello", throwing)]_vars

\* A's link to B has been torn down while its link to C stands, recorded
C31_Witness ==
    \E h, k \in Handles :
        /\ pcs["A"][h].remote = "B" /\ pcs["A"][h].closed
        /\ ~peersNext["A"]["B"].has
        /\ pcs["A"][k].remote = "C" /\ ~pcs["A"][k].closed
        /\ peersNext["A"]["C"].has /\ peersNext["A"]["C"].pc = k

\* C34 as stated: a terminal state reported by handle h leaves as it was
\* every other handle made for the same remote id, and leaves the record of
\* that id as it was when the record holds another handle.
C34_FailureSparesOtherHandle ==
    [][\A h \in Handles :
          onconnectionstatechange("A", h)
          => LET r == pcs["A"][h].remote
             IN  /\ \A k \in Handles \ {h} :
                       pcs["A"][k].remote = r => pcs'["A"][k] = pcs["A"][k]
                 /\ (peersNext["A"][r].has /\ peersNext["A"][r].pc # h)
                    => peersNext'["A"][r] = peersNext["A"][r]]_vars

\* C35 as stated: a client holds no record whose remote id is its own id.
C35_NoRecordOfSelf ==
    \A x \in Ids : ~peersNext[x][x].has

\* ------------------------------------------------------------------------
\* Properties of two clients and the Hub
\* ------------------------------------------------------------------------
\* Nothing is left to happen but an edit.
PairQuiet ==
    /\ HubQuiet
    /\ \A x \in Members :
          /\ ws[x] = "open"
          /\ inbox[ConnOf[x]] = <<>> /\ wire[ConnOf[x]] = <<>>
          /\ tasks[x] = {}
          /\ peersRef[x] = peersNext[x] /\ contentRef[x] = contentNext[x]
          /\ \A h \in Handles :
                /\ pcs[x][h].offer # "creating"
                /\ chq[x][h] = <<>>
                /\ ~(pcs[x][h].chan = "connecting" /\ Ready(x, h))
                /\ ~(~pcs[x][h].init /\ pcs[x][h].chan = "none" /\ Ready(x, h))

\* x's record for y and y's record for x are the two ends of one negotiated
\* link, the only handles the two hold for each other, one of them initiator.
OneLink(x, y) ==
    LET hx == peersRef[x][y].pc
        hy == peersRef[y][x].pc
    IN  /\ peersRef[x][y].has /\ hx # 0
        /\ peersRef[y][x].has /\ hy # 0
        /\ Live(x, y) = {hx} /\ Live(y, x) = {hy}
        /\ Ready(x, hx)
        /\ pcs[x][hx].rdesc.o = y /\ pcs[x][hx].rdesc.h = hy
        /\ pcs[x][hx].init # pcs[y][hy].init

\* C7 as stated: once the users have joined one after another and nothing
\* is left to happen, every pair of members is connected by exactly one link.
C7_FullMeshOncePerPair ==
    PairQuiet => \A x, y \in Members : x # y => OneLink(x, y)

\* A's socket has dropped, the Hub has finished with it, and B has handled
\* and rendered everything the Hub sent it.
LeaveQuiet ==
    /\ gpc[ConnOf["A"]] \notin {"read", "bcastList", "bcastWrite"}
    /\ HubQuiet
    /\ wire[ConnOf["B"]] = <<>>
    /\ tasks["B"] = {}
    /\ peersRef["B"] = peersNext["B"]

\* C11 as stated: once A's socket has dropped with A and B linked, and
\* nothing is left for the Hub and for B to do, the registry holds no record
\* of A, B holds no record for A and no handle of B for A is still open.
C11_LeaveTearsDown ==
    LeaveQuiet =>
        /\ clients["A"] = NoClient
        /\ ~peersRef["B"]["A"].has
        /\ Live("B", "A") = {}

\* C21 as stated: when A and B have each made one initiator handle toward
\* the other and each one's offer has reached the other while its own was
\* outstanding, then once nothing is left to happen each holds one record
\* for the other, the two being the ends of one link whose channel is open.
C21_GlareResolved ==
    ( /\ PairQuiet
      /\ nread = 2
      /\ Cardinality(Initiated("A", "B")) = 1
      /\ Cardinality(Initiated("B", "A")) = 1 )
    => OneLink("A", "B") /\ Linked("A", "B")

\* The text of the sync messages among ds, in order.
RECURSIVE Syncs(_)
Syncs(ds) ==
    IF ds = <<>> THEN <<>>
    ELSE IF Head(ds).kind = "sync" THEN <<Head(ds).text>> \o Syncs(Tail(ds))
    ELSE Syncs(Tail(ds))

\* Responder handle k of y has its channel open, as has the initiator handle
\* at its far end, and nothing the initiator sent is still in flight.
ResyncDone(y, k) ==
    /\ pcs[y][k] # NoPc /\ ~pcs[y][k].init /\ pcs[y][k].chan = "open"
    /\ Ready(y, k)
    /\ Far(y, k).chan = "open"
    /\ chq[pcs[y][k].rdesc.o][pcs[y][k].rdesc.h] = <<>>

\* C9 as stated: the responder receives on the channel, exactly once, the
\* content the initiator holds at the moment its channel opens.
C9_ResyncSendsCurrentContent ==
    \A y \in Members : \A k \in Handles :
        ResyncDone(y, k) => Syncs(recv[y][k]) = <<Far(y, k).openCur>>

\* C9 amended: the responder receives on the channel, exactly once, the
\* value currentContentRef.current holds when the initiator's channel opens,
\* that is the initiator's content as of its last render, if that value is
\* not empty; if it is empty the responder receives no content on open.
C9_ResyncSendsRenderedContent ==
    \A y \in Members : \A k \in Handles :
        ResyncDone(y, k)
        => Syncs(recv[y][k]) = IF Far(y, k).openRef = "" THEN <<>>
                               ELSE <<Far(y, k).openRef>>

\* the initiator has content when its channel opens, every edit the bound
\* allows has been made, and the responder has received the content sent on open
C9_Witness ==
    \E y \in Members : \E k \in Handles :
        /\ ResyncDone(y, k)
        /\ nread = MaxEdits
        /\ Far(y, k).openCur # ""
        /\ Syncs(recv[y][k]) # <<>>
        /\ contentNext[y] = Far(y, k).openRef

\* C10 as stated, its end: in the join scenario of A then B, once nothing is
\* left to happen the channel is open on A's initiator link and on B's
\* responder link.
C10_BothOpenWhenQuiet ==
    PairQuiet =>
        /\ \E h \in Handles : pcs["A"][h].init /\ pcs["A"][h].remote = "B"
                              /\ pcs["A"][h].chan = "open"
        /\ \E k \in Handles : ~pcs["B"][k].init /\ pcs["B"][k].remote = "A"
                              /\ pcs["B"][k].chan = "open"

\* C39 as stated: A and B each made one edit, each before its end of their
\* one channel opened, each end opened with its content rendered and not
\* empty, nothing but the contents sent on open crossed the channel, and
\* nothing is left to happen; then A and B hold the same content.
C39_ResyncConverges ==
    ( /\ PairQuiet /\ OneLink("A", "B") /\ Linked("A", "B")
      /\ nread = 2
      /\ \A x \in Members : \A h \in Handles :
            /\ pcs[x][h].chan = "open"
               => /\ pcs[x][h].openCur # "" /\ pcs[x][h].openRef = pcs[x][h].openCur
            /\ Len(Syncs(recv[x][h])) = Len(recv[x][h]) )
    => contentNext["A"] = contentNext["B"]

====
